---------------------------- MODULE Spec2Model ----------------------------
(***************************************************************************)
(* Training-loop orchestration of onegan/estimator.py.                     *)
(*                                                                         *)
(* One estimator object is built and driven through run(); the model       *)
(* follows the control flow of OneEstimator, OneGANEstimator and           *)
(* OneGANReadyEstimator statement group by statement group, and the        *)
(* training pass of OneWGANReadyEstimator.  Networks, optimizers,          *)
(* schedulers, the logger and the saver are collaborators: the model       *)
(* records the calls made on them.                                         *)
(***************************************************************************)
EXTENDS Integers, Sequences, FiniteSets, TLC

\* ------------------------------------------------------------------ bounds
MaxEpochs == 12
MaxBatches == 2
MaxWBatches == 7

\* -------------------------------------------------------- program constants
\* kwargs.get('save_epochs', 5)
save_epochs == 5
\* self.critic_iters = 5
DefaultCriticIters == 5

Classes == {"OneEstimator", "OneGANEstimator", "OneGANReadyEstimator",
            "OneWGANReadyEstimator"}

\* Attributes the methods read and no constructor of the module assigns; an
\* instance has them only when a subclass or the caller provides them.
\*   conditional   read by foward_d / foward_g
\*   model_optim   self.model and self.optim, read by Estimator.save_checkpoint
\*   lr_scheduler  read by the guard of OneGANEstimator.adjust_learning_rate
\*   wgan_attrs    gnet, dnet, d_optim, g_optim, metric, logger, criterion and
\*                 foward_g, read by OneWGANReadyEstimator.train
ProvidedChoices(c) ==
    CASE c = "OneEstimator" -> {{}}
      [] c = "OneGANEstimator" -> {{}, {"lr_scheduler"}}
      [] c = "OneGANReadyEstimator" -> SUBSET {"conditional", "model_optim"}
      [] OTHER -> {{}, {"wgan_attrs"}}

\* The lr_scheduler argument: None, one scheduler (plateau type or not) for
\* OneEstimator, a pair of schedulers for OneGANEstimator.
SchedulerChoices(c) ==
    CASE c = "OneEstimator" -> {"None", "plateau", "other"}
      [] c = "OneGANEstimator" -> {"None", "pair"}
      [] OTHER -> {"None"}

\* Which of the monitored names the caller's inference closure reports.
InferenceKeyChoices(c) ==
    IF c = "OneGANEstimator"
    THEN {{"loss/loss_g", "loss/loss_d"}, {"loss/loss_g"}, {}}
    ELSE {{}}

VARIABLES
    cls,            \* class of the estimator
    logger,         \* TRUE when a logger is configured, FALSE for None
    saver,          \* TRUE when a saver is configured, FALSE for None
    lr_scheduler,   \* the lr_scheduler argument
    provided,       \* attributes provided from outside the constructor
    inference_keys, \* monitored names the inference closure reports
    critic_iters,   \* self.critic_iters
    entry,          \* the method the caller invokes on the estimator
    epochs,         \* the epochs argument of run()
    n_train,        \* len(train_loader)
    n_val,          \* len(validate_loader)
    pc,             \* position in the program
    raised,         \* "none" or the exception that ended the call
    epoch,          \* loop variable of run()
    i,              \* batches consumed from the loader in the current pass
    k,              \* critic iterations done in the current outer iteration
    outer,          \* outer iterations completed in the Wasserstein pass
    mode,           \* train()/eval() mode of the networks
    grad_enabled,   \* FALSE inside torch.no_grad()
    events,         \* optimizer/loss events of the current batch, in order
    dnet_calls,     \* invocations of the discriminator in the current batch
    dnet_version,   \* number of updates of the discriminator's parameters
    d_loss,         \* the discriminator loss held by the batch
    g_loss,         \* the generator loss held by the batch
    optim_steps,    \* step() calls per optimizer
    optim_at_eval,  \* optim_steps when the current evaluation pass began
    history,        \* self.history (the History passed to train for Ready)
    history_val,    \* self.history_val (the History passed to evaluate)
    history_at_eval,\* history when the current evaluation pass began
    save_calls,     \* epoch arguments of saver.save, in call order
    sched_steps,    \* per scheduler, the kinds of step() calls, in order
    scalar_calls,   \* logger.scalar emissions, in call order
    epoch_fn,       \* the epoch_fn argument: None, a callable or a list
    histogram_arg,  \* how the closure calls tensorboard_logging
    hist_dict,      \* self._hist_dict: prefixed tag -> buffered tensors
    histogram_calls, \* logger.histogram emissions of the current epoch
    callback_calls  \* the epoch_fn invocations with their arguments

vars == <<cls, logger, saver, lr_scheduler, provided, inference_keys,
          critic_iters, epochs, n_train, n_val, pc, raised, epoch, i, k,
          outer, mode, grad_enabled, events, dnet_calls, dnet_version,
          d_loss, g_loss, optim_steps, optim_at_eval, history, history_val,
          history_at_eval, save_calls, sched_steps, scalar_calls, entry,
          epoch_fn, histogram_arg, hist_dict, histogram_calls,
          callback_calls>>

config == <<cls, logger, saver, lr_scheduler, provided, inference_keys,
            critic_iters, entry, epochs, n_train, n_val, epoch_fn,
            histogram_arg>>

\* the histogram buffer, the emissions made from it, the callbacks invoked
hist_vars == <<hist_dict, histogram_calls, callback_calls>>


\* ------------------------------------------------------------ History
\* onegan.extension.History: a mapping from key to (running sum, count).  A
\* key is <<name, suffix>>; the mean of a key is sum / count.
EmptyHistory == [key \in {} |-> <<0, 0>>]

History_clear(h) == EmptyHistory

History_add(h, status, log_suffix) ==
    LET new == {<<n, log_suffix>> : n \in DOMAIN status}
    IN  [key \in (DOMAIN h) \cup new |->
            IF key \in new
            THEN IF key \in DOMAIN h
                 THEN <<h[key][1] + status[key[1]], h[key][2] + 1>>
                 ELSE <<status[key[1]], 1>>
            ELSE h[key]]

History_metric(h) == h

History_has(h, name, log_suffix) == <<name, log_suffix>> \in DOMAIN h

\* ------------------------------------------------------------ tensors
\* A tensor is known by whether it carries gradient history.
gnet(source) == [grad |-> grad_enabled]

\* the output handed on without detaching it
detach_omitted(t) == t

detach(t) == [grad |-> FALSE]

\* onegan.loss.conditional_input: the discriminator's input built from the
\* source and x; it carries the gradient history of x.
conditional_input(source, x, conditional) == [grad |-> x.grad]

NoLoss == [dnet |-> -1]

\* event log helpers
Zero(o) == <<"zero_grad", o>>
Backward(o) == <<"backward", o>>
Step(o) == <<"step", o>>
Loss(o) == <<"loss", o>>

StepOptim(o) == [optim_steps EXCEPT ![o] = @ + 1]

\* ------------------------------------------------------------ caller stubs
\* The loaders yield batches 1, 2, ..., n; the caller's closures report
\* losses that depend on the batch only.
Batch == i + 1

\* update_fn of OneGANEstimator: the stages of the staged closure
StageLossD(data) == ("loss/loss_d" :> data)
StageLossG(data) == ("loss/loss_g" :> data + 1)
StageAccuracy(data) == ("acc/psnr" :> data)

\* {**loss_d, **loss_g, **accuracy} of the update closure
UpdateStatus(data) == StageLossD(data) @@ StageLossG(data) @@ StageAccuracy(data)

\* {**loss_d, **loss_g, **accuracy} of the inference closure
InferenceStatus(data) == [n \in inference_keys \cup {"acc/psnr"} |-> data]

\* result.status of the closure_fn of OneEstimator: every batch reports the
\* loss, every other batch an accuracy as well
ClosureStatus(data) ==
    IF data % 2 = 1
    THEN ("loss/loss" :> data) @@ ("acc/top1" :> data + 1)
    ELSE ("loss/loss" :> data)

\* {**g_terms, **d_terms, 'acc/psnr': acc}
GTerms(data) == [n \in {"g/recon", "g/adv", "g/loss"} |-> data]
DTerms(data) == [n \in {"d/real", "d/fake", "d/loss"} |-> data]
ReadyStatus(data) == GTerms(data) @@ DTerms(data) @@ ("acc/psnr" :> data)

\* self._hist_dict = defaultdict(list)
EmptyBuffer == [tag \in {} |-> <<>>]

\* ------------------------------------------------------------ initial state
Init ==
    /\ cls \in Classes
    /\ logger \in (IF cls \in {"OneEstimator", "OneGANEstimator"}
                   THEN BOOLEAN ELSE {TRUE})
    /\ saver \in (IF cls \in {"OneEstimator", "OneGANEstimator"}
                  THEN BOOLEAN ELSE {TRUE})
    /\ lr_scheduler \in SchedulerChoices(cls)
    /\ provided \in ProvidedChoices(cls)
    /\ inference_keys \in InferenceKeyChoices(cls)
    /\ critic_iters \in (IF cls = "OneWGANReadyEstimator"
                         THEN {1, 2, DefaultCriticIters}
                         ELSE {DefaultCriticIters})
    /\ entry \in (CASE cls = "OneGANEstimator" -> {"run", "dummy_run"}
                    [] cls = "OneWGANReadyEstimator" -> {"train", "run"}
                    [] OTHER -> {"run"})
    /\ epochs \in (IF cls = "OneWGANReadyEstimator" THEN {1} ELSE 1..MaxEpochs)
    /\ n_train \in (IF cls = "OneWGANReadyEstimator"
                    THEN 0..MaxWBatches ELSE 1..MaxBatches)
    /\ n_val \in (IF cls = "OneWGANReadyEstimator" THEN {1} ELSE 1..MaxBatches)
    /\ pc = "init"
    /\ raised = "none"
    /\ epoch = 0
    /\ i = 0
    /\ k = 0
    /\ outer = 0
    /\ mode = "unset"
    /\ grad_enabled = TRUE
    /\ events = <<>>
    /\ dnet_calls = <<>>
    /\ dnet_version = 0
    /\ d_loss = NoLoss
    /\ g_loss = NoLoss
    /\ optim_steps = [d |-> 0, g |-> 0, m |-> 0]
    /\ optim_at_eval = [d |-> 0, g |-> 0, m |-> 0]
    /\ history = EmptyHistory
    /\ history_val = EmptyHistory
    /\ history_at_eval = EmptyHistory
    /\ save_calls = <<>>
    /\ sched_steps = <<>>
    /\ scalar_calls = <<>>
    /\ epoch_fn \in (IF cls = "OneEstimator"
                     THEN {"None", "callable", "list"} ELSE {"None"})
    /\ histogram_arg \in (IF cls = "OneEstimator"
                          THEN {"none", "unprefixed", "prefixed"}
                          ELSE {"none"})
    /\ hist_dict = EmptyBuffer
    /\ histogram_calls = <<>>
    /\ callback_calls = <<>>

\* run-time state other than the program position
data_vars == <<epoch, i, k, outer, mode, grad_enabled, events, dnet_calls,
               dnet_version, d_loss, g_loss, optim_steps, optim_at_eval,
               history, history_val, history_at_eval, save_calls,
               sched_steps, scalar_calls>>

\* An exception leaves the call: nothing else changes.
Raise(exc) ==
    /\ pc' = "raised"
    /\ raised' = exc
    /\ UNCHANGED data_vars

\* ------------------------------------------------------------ constructors
OneEstimator_init ==
    /\ pc = "init" /\ cls = "OneEstimator"
    /\ pc' = "run_loop"
    /\ history' = EmptyHistory
    /\ UNCHANGED <<config, hist_vars, raised, epoch, i, k, outer, mode, grad_enabled,
                   events, dnet_calls, dnet_version, d_loss, g_loss,
                   optim_steps, optim_at_eval, history_val, history_at_eval,
                   save_calls, sched_steps, scalar_calls>>

\* len(lr_scheduler) is evaluated on the argument as given.
OneGANEstimator_init ==
    /\ pc = "init" /\ cls = "OneGANEstimator"
    /\ UNCHANGED <<config, hist_vars>>
    /\ IF lr_scheduler = "None"
       THEN Raise("TypeError")
       ELSE /\ pc' = "run_loop"
            /\ history' = EmptyHistory
            /\ history_val' = EmptyHistory
            /\ UNCHANGED <<raised, epoch, i, k, outer, mode, grad_enabled,
                           events, dnet_calls, dnet_version, d_loss, g_loss,
                           optim_steps, optim_at_eval, history_at_eval,
                           save_calls, sched_steps, scalar_calls>>

OneGANReadyEstimator_init ==
    /\ pc = "init" /\ cls = "OneGANReadyEstimator"
    /\ pc' = "run_loop"
    /\ UNCHANGED <<config, hist_vars, raised, data_vars>>

\* super().__init__(model, optimizer) leaves lr_scheduler at None.
OneWGANReadyEstimator_init ==
    /\ pc = "init" /\ cls = "OneWGANReadyEstimator"
    /\ UNCHANGED <<config, hist_vars>>
    /\ Raise("TypeError")

\* ------------------------------------------------------------ OneEstimator
\* History.get(key): the entry of the key, "None" when it is missing
History_get(h, name, log_suffix) ==
    IF <<name, log_suffix>> \in DOMAIN h THEN h[<<name, log_suffix>>] ELSE "None"

\* The closure's call of tensorboard_logging for a batch: two tagged tensors,
\* under the prefix of the pass, under no prefix, or no call at all.
ClosureHistogram(data) ==
    IF histogram_arg = "none"
    THEN [tag \in {} |-> <<>>]
    ELSE [tag \in {"w", "b"} |-> <<epoch, mode, data, tag>>]

ClosurePrefix ==
    IF histogram_arg = "prefixed"
    THEN (IF mode = "train" THEN "train_" ELSE "val_")
    ELSE ""

\* tensorboard_logging(histogram=..., prefix=...): the buffer afterwards
OneEstimator_tensorboard_logging(buf, histogram, prefix) ==
    IF ~logger
    THEN buf
    ELSE IF DOMAIN histogram # {} /\ prefix # ""
         THEN LET new == {<<prefix, tag>> : tag \in DOMAIN histogram}
              IN  [t \in (DOMAIN buf) \cup new |->
                      IF t \in new
                      THEN Append(IF t \in DOMAIN buf THEN buf[t] ELSE <<>>,
                                  histogram[t[2]])
                      ELSE buf[t]]
         ELSE buf

\* the buffer kept after the histograms were emitted
flushed_buffer_kept(buf) == buf

\* self._hist_dict = defaultdict(list) after logger.histogram
flushed_buffer(buf) == EmptyBuffer

\* for fn in epoch_fn: fn(epoch, self.history) / epoch_fn(epoch, self.history)
OneEstimator_epoch_fn_calls ==
    CASE epoch_fn = "list" -> <<<<"epoch_fn", "1">>, <<"epoch_fn", "2">>>>
      [] epoch_fn = "callable" -> <<<<"epoch_fn", "1">>>>
      [] OTHER -> <<>>

\* tensorboard_epoch_logging: the calls on the logger
OneEstimator_tensorboard_epoch_logging(buf) ==
    IF ~logger
    THEN <<>>
    ELSE <<<<"logger.scalar", "m">>>>
         \o (IF DOMAIN buf # {} THEN <<<<"logger.histogram", "m">>>> ELSE <<>>)

\* save_checkpoint: the calls on the saver
OneEstimator_save_checkpoint ==
    IF ~saver THEN <<>> ELSE <<<<"saver.save", "m">>>>

\* a scheduler of the plateau type stepped without the monitored value
adjust_learning_rate_blind(monitor_val) ==
    IF lr_scheduler = "None" THEN <<>> ELSE <<<<"s", "noarg">>>>

\* adjust_learning_rate(monitor_val): the step() calls
OneEstimator_adjust_learning_rate(monitor_val) ==
    CASE lr_scheduler = "None" -> <<>>
      [] lr_scheduler = "plateau" -> <<<<"s", "value", monitor_val>>>>
      [] OTHER -> <<<<"s", "noarg">>>>

\* the checkpoint persisted before the callbacks and the logging
epoch_events_save_first(buf, steps) ==
    OneEstimator_save_checkpoint
    \o OneEstimator_epoch_fn_calls
    \o OneEstimator_tensorboard_epoch_logging(buf)
    \o [j \in 1..Len(steps) |-> <<"lr_scheduler.step", steps[j][2]>>]

\* the calls of lines 134-143, in order
OneEstimator_epoch_events(buf, steps) ==
    OneEstimator_epoch_fn_calls
    \o OneEstimator_tensorboard_epoch_logging(buf)
    \o OneEstimator_save_checkpoint
    \o [j \in 1..Len(steps) |-> <<"lr_scheduler.step", steps[j][2]>>]

\* the epoch entered without self.history.clear()
OneEstimator_run_unclear ==
    /\ pc = "run_loop" /\ cls = "OneEstimator"
    /\ IF epoch < epochs
       THEN /\ pc' = "train_begin"
            /\ histogram_calls' = <<>>
       ELSE /\ pc' = "done"
            /\ UNCHANGED histogram_calls
    /\ UNCHANGED <<config, raised, epoch, i, k, outer, mode, grad_enabled,
                   events, dnet_calls, dnet_version, d_loss, g_loss,
                   optim_steps, optim_at_eval, history, history_val,
                   history_at_eval, save_calls, sched_steps, scalar_calls,
                   hist_dict, callback_calls>>

\* for epoch in epoch_range: self.history.clear(); self.state['epoch'] = epoch
OneEstimator_run ==
    /\ pc = "run_loop" /\ cls = "OneEstimator"
    /\ IF epoch < epochs
       THEN /\ pc' = "train_begin"
            /\ history' = History_clear(history)
            /\ histogram_calls' = <<>>
       ELSE /\ pc' = "done"
            /\ UNCHANGED <<history, histogram_calls>>
    /\ UNCHANGED <<config, raised, epoch, i, k, outer, mode, grad_enabled,
                   events, dnet_calls, dnet_version, d_loss, g_loss,
                   optim_steps, optim_at_eval, history_val, history_at_eval,
                   save_calls, sched_steps, scalar_calls, hist_dict,
                   callback_calls>>

OneEstimator_train_begin ==
    /\ pc = "train_begin" /\ cls = "OneEstimator"
    /\ pc' = "train"
    /\ mode' = "train"
    /\ i' = 0
    /\ events' = <<>>
    /\ UNCHANGED <<config, hist_vars, raised, epoch, k, outer, grad_enabled,
                   dnet_calls, dnet_version, d_loss, g_loss, optim_steps,
                   optim_at_eval, history, history_val, history_at_eval,
                   save_calls, sched_steps, scalar_calls>>

\* a batch whose optimizer is never stepped
OneEstimator_train_stepless ==
    /\ pc = "train" /\ cls = "OneEstimator"
    /\ events' = <<<<"closure", "m">>, Zero("m"), Backward("m"),
                   <<"history.add", "m">>>>
    /\ hist_dict' = OneEstimator_tensorboard_logging(
                        hist_dict, ClosureHistogram(Batch), ClosurePrefix)
    /\ history' = History_add(history, ClosureStatus(Batch), "")
    /\ i' = i + 1
    /\ pc' = IF i + 1 = n_train THEN "evaluate_begin" ELSE "train"
    /\ UNCHANGED <<config, histogram_calls, callback_calls, raised, epoch, k, outer, mode,
                   grad_enabled, dnet_calls, dnet_version, d_loss, g_loss,
                   optim_steps, optim_at_eval, history_val, history_at_eval,
                   save_calls, sched_steps, scalar_calls>>

\* one batch of OneEstimator.train
OneEstimator_train ==
    /\ pc = "train" /\ cls = "OneEstimator"
    /\ events' = <<<<"closure", "m">>, Zero("m"), Backward("m"), Step("m"),
                   <<"history.add", "m">>>>
    /\ hist_dict' = OneEstimator_tensorboard_logging(
                        hist_dict, ClosureHistogram(Batch), ClosurePrefix)
    /\ optim_steps' = StepOptim("m")
    /\ history' = History_add(history, ClosureStatus(Batch), "")
    /\ i' = i + 1
    /\ pc' = IF i + 1 = n_train THEN "evaluate_begin" ELSE "train"
    /\ UNCHANGED <<config, histogram_calls, callback_calls, raised, epoch, k, outer, mode,
                   grad_enabled, dnet_calls, dnet_version, d_loss, g_loss,
                   optim_at_eval, history_val, history_at_eval, save_calls,
                   sched_steps, scalar_calls>>

OneEstimator_evaluate_begin ==
    /\ pc = "evaluate_begin" /\ cls = "OneEstimator"
    /\ pc' = "evaluate"
    /\ mode' = "eval"
    /\ grad_enabled' = FALSE
    /\ i' = 0
    /\ events' = <<>>
    /\ optim_at_eval' = optim_steps
    /\ history_at_eval' = history
    /\ UNCHANGED <<config, hist_vars, raised, epoch, k, outer, dnet_calls,
                   dnet_version, d_loss, g_loss, optim_steps, history,
                   history_val, save_calls, sched_steps, scalar_calls>>

\* one batch of OneEstimator.evaluate
OneEstimator_evaluate ==
    /\ pc = "evaluate" /\ cls = "OneEstimator"
    /\ events' = <<<<"closure", "m">>, <<"history.add", "m">>>>
    /\ hist_dict' = OneEstimator_tensorboard_logging(
                        hist_dict, ClosureHistogram(Batch), ClosurePrefix)
    /\ history' = History_add(history, ClosureStatus(Batch), "_val")
    /\ i' = i + 1
    /\ IF i + 1 = n_val
       THEN pc' = "epoch_end" /\ grad_enabled' = TRUE
       ELSE pc' = "evaluate" /\ UNCHANGED grad_enabled
    /\ UNCHANGED <<config, histogram_calls, callback_calls, raised, epoch, k, outer, mode,
                   dnet_calls, dnet_version, d_loss, g_loss, optim_steps,
                   optim_at_eval, history_val, history_at_eval, save_calls,
                   sched_steps, scalar_calls>>

\* epoch_fn, tensorboard_epoch_logging, save_checkpoint, adjust_learning_rate
OneEstimator_epoch_end ==
    /\ pc = "epoch_end" /\ cls = "OneEstimator"
    /\ LET steps == OneEstimator_adjust_learning_rate(
                        History_get(history, "loss/loss", "_val"))
       IN  /\ events' = OneEstimator_epoch_events(hist_dict, steps)
           /\ sched_steps' = sched_steps \o steps
    /\ scalar_calls' = IF logger
                       THEN Append(scalar_calls,
                                   [epoch |-> epoch,
                                    keys |-> DOMAIN History_metric(history),
                                    metric |-> History_metric(history)])
                       ELSE scalar_calls
    /\ histogram_calls' = IF logger /\ DOMAIN hist_dict # {}
                          THEN Append(histogram_calls,
                                      [epoch |-> epoch, hist |-> hist_dict])
                          ELSE histogram_calls
    /\ hist_dict' = IF logger /\ DOMAIN hist_dict # {}
                    THEN flushed_buffer(hist_dict)
                    ELSE hist_dict
    /\ callback_calls' =
          callback_calls
          \o [j \in 1..Len(OneEstimator_epoch_fn_calls) |->
                 [fn |-> OneEstimator_epoch_fn_calls[j][2],
                  epoch |-> epoch,
                  history |-> history]]
    /\ save_calls' = IF saver THEN Append(save_calls, epoch + 1) ELSE save_calls
    /\ epoch' = epoch + 1
    /\ pc' = "run_loop"
    /\ UNCHANGED <<config, raised, i, k, outer, mode, grad_enabled,
                   dnet_calls, dnet_version, d_loss, g_loss, optim_steps,
                   optim_at_eval, history, history_val, history_at_eval>>

\* the closure's exception caught and the pass carried on
OneEstimator_closure_swallowed ==
    /\ cls = "OneEstimator" /\ pc \in {"train", "evaluate"}
    /\ raised' = "ClosureError"
    /\ UNCHANGED <<config, hist_vars, pc, data_vars>>

\* update_fn / inference_fn raises: nothing in train, evaluate or run catches
OneEstimator_closure_raises ==
    /\ cls = "OneEstimator" /\ pc \in {"train", "evaluate"}
    /\ UNCHANGED <<config, hist_vars>>
    /\ Raise("ClosureError")

\* ------------------------------------------------------------ OneGANEstimator
\* for epoch in range(epochs): self.state['epoch'] = epoch
OneGANEstimator_run ==
    /\ pc = "run_loop" /\ cls = "OneGANEstimator" /\ entry = "run"
    /\ pc' = IF epoch < epochs THEN "gan_train_begin" ELSE "done"
    /\ UNCHANGED <<config, hist_vars, raised, data_vars>>

\* the training pass entered without self.history.clear()
OneGANEstimator_train_begin_unclear ==
    /\ pc = "gan_train_begin"
    /\ pc' = "gan_train_d"
    /\ mode' = "train"
    /\ i' = 0
    /\ UNCHANGED <<config, hist_vars, raised, epoch, k, outer, grad_enabled, events,
                   dnet_calls, dnet_version, d_loss, g_loss, optim_steps,
                   optim_at_eval, history, history_val, history_at_eval,
                   save_calls, sched_steps, scalar_calls>>

OneGANEstimator_train_begin ==
    /\ pc = "gan_train_begin"
    /\ pc' = "gan_train_d"
    /\ mode' = "train"
    /\ history' = History_clear(history)
    /\ i' = 0
    /\ UNCHANGED <<config, hist_vars, raised, epoch, k, outer, grad_enabled, events,
                   dnet_calls, dnet_version, d_loss, g_loss, optim_steps,
                   optim_at_eval, history_val, history_at_eval, save_calls,
                   sched_steps, scalar_calls>>

\* staged_closure = update_fn(...); the discriminator update of the batch
OneGANEstimator_train_d ==
    /\ pc = "gan_train_d"
    /\ pc' = "gan_train_g"
    /\ events' = <<Zero("d"), Loss("d"), Backward("d"), Step("d")>>
    /\ d_loss' = [dnet |-> dnet_version]
    /\ g_loss' = NoLoss
    /\ dnet_version' = dnet_version + 1
    /\ optim_steps' = StepOptim("d")
    /\ UNCHANGED <<config, hist_vars, raised, epoch, i, k, outer, mode, grad_enabled,
                   dnet_calls, optim_at_eval, history, history_val,
                   history_at_eval, save_calls, sched_steps, scalar_calls>>

\* the generator update of the batch
OneGANEstimator_train_g ==
    /\ pc = "gan_train_g"
    /\ pc' = "gan_train_fold"
    /\ events' = events \o <<Zero("g"), Loss("g"), Backward("g"), Step("g")>>
    /\ g_loss' = [dnet |-> dnet_version]
    /\ optim_steps' = StepOptim("g")
    /\ UNCHANGED <<config, hist_vars, raised, epoch, i, k, outer, mode, grad_enabled,
                   dnet_calls, dnet_version, d_loss, optim_at_eval, history,
                   history_val, history_at_eval, save_calls, sched_steps,
                   scalar_calls>>

\* accuracy = next(staged_closure); history.add; next(staged_closure)
OneGANEstimator_train_fold ==
    /\ pc = "gan_train_fold"
    /\ events' = events \o <<<<"history.add", "train">>>>
    /\ history' = History_add(history, UpdateStatus(Batch), "")
    /\ i' = i + 1
    /\ pc' = IF i + 1 = n_train THEN "gan_log_train" ELSE "gan_train_d"
    /\ UNCHANGED <<config, hist_vars, raised, epoch, k, outer, mode, grad_enabled,
                   dnet_calls, dnet_version, d_loss, g_loss, optim_steps,
                   optim_at_eval, history_val, history_at_eval, save_calls,
                   sched_steps, scalar_calls>>

\* self.logger.scalar(self.history.metric(), epoch) after the training pass
OneGANEstimator_log_train ==
    /\ pc = "gan_log_train"
    /\ UNCHANGED <<config, hist_vars>>
    /\ IF ~logger
       THEN Raise("AttributeError")
       ELSE /\ pc' = "gan_evaluate_begin"
            /\ scalar_calls' = Append(scalar_calls,
                                      [epoch |-> epoch,
                                       keys |-> DOMAIN History_metric(history),
                               metric |-> History_metric(history)])
            /\ UNCHANGED <<raised, epoch, i, k, outer, mode, grad_enabled,
                           events, dnet_calls, dnet_version, d_loss, g_loss,
                           optim_steps, optim_at_eval, history, history_val,
                           history_at_eval, save_calls, sched_steps>>

\* the evaluation pass entered without self.history.clear()
OneGANEstimator_evaluate_begin_unclear ==
    /\ pc = "gan_evaluate_begin"
    /\ pc' = "gan_evaluate"
    /\ mode' = "eval"
    /\ grad_enabled' = FALSE
    /\ optim_at_eval' = optim_steps
    /\ history_at_eval' = history
    /\ i' = 0
    /\ events' = <<>>
    /\ UNCHANGED <<config, hist_vars, raised, epoch, k, outer, dnet_calls, dnet_version,
                   d_loss, g_loss, optim_steps, history, history_val,
                   save_calls, sched_steps, scalar_calls>>

OneGANEstimator_evaluate_begin ==
    /\ pc = "gan_evaluate_begin"
    /\ pc' = "gan_evaluate"
    /\ mode' = "eval"
    /\ grad_enabled' = FALSE
    /\ optim_at_eval' = optim_steps
    /\ history_at_eval' = history
    /\ history' = History_clear(history)
    /\ i' = 0
    /\ events' = <<>>
    /\ UNCHANGED <<config, hist_vars, raised, epoch, k, outer, dnet_calls, dnet_version,
                   d_loss, g_loss, optim_steps, history_val, save_calls,
                   sched_steps, scalar_calls>>

\* an evaluation batch that also updates the generator
OneGANEstimator_evaluate_updating ==
    /\ pc = "gan_evaluate"
    /\ events' = <<Loss("d"), Loss("g"), Zero("g"), Backward("g"), Step("g"),
                   <<"history.add", "eval">>>>
    /\ optim_steps' = StepOptim("g")
    /\ history' = History_add(history, InferenceStatus(Batch), "_val")
    /\ i' = i + 1
    /\ IF i + 1 = n_val
       THEN pc' = "gan_log_eval" /\ grad_enabled' = TRUE
       ELSE pc' = "gan_evaluate" /\ UNCHANGED grad_enabled
    /\ UNCHANGED <<config, hist_vars, raised, epoch, k, outer, mode, dnet_calls,
                   dnet_version, d_loss, g_loss, optim_at_eval,
                   history_val, history_at_eval, save_calls, sched_steps,
                   scalar_calls>>

\* one batch of OneGANEstimator.evaluate
OneGANEstimator_evaluate ==
    /\ pc = "gan_evaluate"
    /\ events' = <<Loss("d"), Loss("g"), <<"history.add", "eval">>>>
    /\ history' = History_add(history, InferenceStatus(Batch), "_val")
    /\ i' = i + 1
    /\ IF i + 1 = n_val
       THEN pc' = "gan_log_eval" /\ grad_enabled' = TRUE
       ELSE pc' = "gan_evaluate" /\ UNCHANGED grad_enabled
    /\ UNCHANGED <<config, hist_vars, raised, epoch, k, outer, mode, dnet_calls,
                   dnet_version, d_loss, g_loss, optim_steps, optim_at_eval,
                   history_val, history_at_eval, save_calls, sched_steps,
                   scalar_calls>>

\* self.logger.scalar(self.history.metric(), epoch) after the evaluation pass
OneGANEstimator_log_eval ==
    /\ pc = "gan_log_eval"
    /\ pc' = "gan_epoch_end"
    /\ scalar_calls' = Append(scalar_calls,
                              [epoch |-> epoch,
                               keys |-> DOMAIN History_metric(history),
                               metric |-> History_metric(history)])
    /\ UNCHANGED <<config, hist_vars, raised, epoch, i, k, outer, mode, grad_enabled,
                   events, dnet_calls, dnet_version, d_loss, g_loss,
                   optim_steps, optim_at_eval, history, history_val,
                   history_at_eval, save_calls, sched_steps>>

\* The step() calls of one adjust_learning_rate(('loss/loss_g_val',
\* 'loss/loss_d_val')): nothing without the attribute lr_scheduler; a missing
\* monitored key raises inside the try, and the handler steps every scheduler.
OneGANEstimator_adjust_learning_rate(h) ==
    IF "lr_scheduler" \notin provided
    THEN <<>>
    ELSE IF History_has(h, "loss/loss_g", "_val")
         THEN IF History_has(h, "loss/loss_d", "_val")
              THEN <<<<"g", "value">>, <<"d", "value">>>>
              ELSE <<<<"g", "value">>, <<"g", "noarg">>, <<"d", "noarg">>>>
         ELSE <<<<"g", "noarg">>, <<"d", "noarg">>>>

\* self.save_checkpoint(); self.adjust_learning_rate(...)
OneGANEstimator_epoch_end ==
    /\ pc = "gan_epoch_end"
    /\ save_calls' = IF saver THEN Append(save_calls, epoch) ELSE save_calls
    /\ sched_steps' = sched_steps \o OneGANEstimator_adjust_learning_rate(history)
    /\ epoch' = epoch + 1
    /\ pc' = "run_loop"
    /\ UNCHANGED <<config, hist_vars, raised, i, k, outer, mode, grad_enabled, events,
                   dnet_calls, dnet_version, d_loss, g_loss, optim_steps,
                   optim_at_eval, history, history_val, history_at_eval,
                   scalar_calls>>

\* a stage of update_fn or inference_fn raises: nothing catches
OneGANEstimator_closure_raises ==
    /\ cls = "OneGANEstimator" /\ entry = "run"
    /\ pc \in {"gan_train_d", "gan_train_g", "gan_evaluate"}
    /\ UNCHANGED <<config, hist_vars>>
    /\ Raise("ClosureError")

\* ---- dummy_run
OneGANEstimator_dummy_run ==
    /\ pc = "run_loop" /\ cls = "OneGANEstimator" /\ entry = "dummy_run"
    /\ pc' = IF epoch < epochs THEN "dummy_train_begin" ELSE "done"
    /\ UNCHANGED <<config, hist_vars, raised, data_vars>>

OneGANEstimator_dummy_train_begin ==
    /\ pc = "dummy_train_begin"
    /\ pc' = "dummy_train"
    /\ mode' = "train"
    /\ history' = History_clear(history)
    /\ i' = 0
    /\ UNCHANGED <<config, hist_vars, raised, epoch, k, outer, grad_enabled, events,
                   dnet_calls, dnet_version, d_loss, g_loss, optim_steps,
                   optim_at_eval, history_val, history_at_eval, save_calls,
                   sched_steps, scalar_calls>>

\* one batch of dummy_train: the closure yields (loss_d, (optim_d, key)),
\* (loss_g, (optim_g, key)) and the accuracy dict
OneGANEstimator_dummy_train ==
    /\ pc = "dummy_train"
    /\ events' = <<Loss("d"), Zero("d"), Backward("d"), Step("d"),
                   Loss("g"), Zero("g"), Backward("g"), Step("g"),
                   <<"history.add", "train">>>>
    /\ d_loss' = [dnet |-> dnet_version]
    /\ g_loss' = [dnet |-> dnet_version + 1]
    /\ dnet_version' = dnet_version + 1
    /\ optim_steps' = [optim_steps EXCEPT !["d"] = @ + 1, !["g"] = @ + 1]
    /\ history' = History_add(history, UpdateStatus(Batch), "")
    /\ i' = i + 1
    /\ pc' = IF i + 1 = n_train THEN "dummy_evaluate_begin" ELSE "dummy_train"
    /\ UNCHANGED <<config, hist_vars, raised, epoch, k, outer, mode, grad_enabled,
                   dnet_calls, optim_at_eval, history_val, history_at_eval,
                   save_calls, sched_steps, scalar_calls>>

OneGANEstimator_dummy_evaluate_begin ==
    /\ pc = "dummy_evaluate_begin"
    /\ pc' = "dummy_evaluate"
    /\ mode' = "eval"
    /\ grad_enabled' = FALSE
    /\ optim_at_eval' = optim_steps
    /\ history_at_eval' = history
    /\ history_val' = History_clear(history_val)
    /\ i' = 0
    /\ events' = <<>>
    /\ UNCHANGED <<config, hist_vars, raised, epoch, k, outer, dnet_calls, dnet_version,
                   d_loss, g_loss, optim_steps, history, save_calls,
                   sched_steps, scalar_calls>>

\* one batch of dummy_evaluate; epoch_fn(epoch) follows the last one
OneGANEstimator_dummy_evaluate ==
    /\ pc = "dummy_evaluate"
    /\ events' = <<Loss("d"), Loss("g"), <<"history.add", "eval">>>>
    /\ history_val' = History_add(history_val, InferenceStatus(Batch), "_val")
    /\ i' = i + 1
    /\ IF i + 1 = n_val
       THEN pc' = "run_loop" /\ grad_enabled' = TRUE /\ epoch' = epoch + 1
       ELSE pc' = "dummy_evaluate" /\ UNCHANGED <<grad_enabled, epoch>>
    /\ UNCHANGED <<config, hist_vars, raised, k, outer, mode, dnet_calls, dnet_version,
                   d_loss, g_loss, optim_steps, optim_at_eval, history,
                   history_at_eval, save_calls, sched_steps, scalar_calls>>

\* ------------------------------------------------------------ OneGANReadyEstimator
\* a batch tensor of the loader carries no gradient history
target == [grad |-> FALSE]

\* the discriminator judged on the fake input only
foward_d_fake_only(source, output, tgt) ==
    <<[stage |-> "d", input |-> "fake",
       grad |-> conditional_input(source, output, TRUE).grad]>>

\* The discriminator invocations of foward_d, in call order.
OneGANReadyEstimator_foward_d(source, output, tgt) ==
    <<[stage |-> "d", input |-> "fake",
       grad |-> conditional_input(source, output, TRUE).grad],
      [stage |-> "d", input |-> "real",
       grad |-> conditional_input(source, tgt, TRUE).grad]>>

\* The discriminator invocation of foward_g.
OneGANReadyEstimator_foward_g(source, output, tgt) ==
    <<[stage |-> "g", input |-> "fake",
       grad |-> conditional_input(source, output, TRUE).grad]>>

\* for epoch in range(epochs): gnet.train(); dnet.train(); train(.., History())
OneGANReadyEstimator_run ==
    /\ pc = "run_loop" /\ cls = "OneGANReadyEstimator"
    /\ IF epoch < epochs
       THEN /\ pc' = "ready_forward"
            /\ mode' = "train"
            /\ history' = EmptyHistory
            /\ i' = 0
       ELSE /\ pc' = "done"
            /\ UNCHANGED <<mode, history, i>>
    /\ UNCHANGED <<config, hist_vars, raised, epoch, k, outer, grad_enabled, events,
                   dnet_calls, dnet_version, d_loss, g_loss, optim_steps,
                   optim_at_eval, history_val, history_at_eval, save_calls,
                   sched_steps, scalar_calls>>

\* output = self.gnet(source); foward_d on the detached output; foward_g; metric
OneGANReadyEstimator_train_forward ==
    /\ pc = "ready_forward"
    /\ UNCHANGED <<config, hist_vars>>
    /\ IF "conditional" \notin provided
       THEN Raise("AttributeError")
       ELSE LET output == gnet(Batch)
            IN  /\ pc' = "ready_d"
                /\ dnet_calls' =
                      OneGANReadyEstimator_foward_d(Batch, detach(output), target)
                      \o OneGANReadyEstimator_foward_g(Batch, output, target)
                /\ d_loss' = [dnet |-> dnet_version]
                /\ g_loss' = [dnet |-> dnet_version]
                /\ events' = <<Loss("d"), Loss("g")>>
                /\ UNCHANGED <<raised, epoch, i, k, outer, mode, grad_enabled,
                               dnet_version, optim_steps, optim_at_eval,
                               history, history_val, history_at_eval,
                               save_calls, sched_steps, scalar_calls>>

\* the generator's optimizer driven where the discriminator's should be
OneGANReadyEstimator_train_d_on_g ==
    /\ pc = "ready_d"
    /\ pc' = "ready_g"
    /\ events' = events \o <<Zero("g"), Backward("g"), Step("g")>>
    /\ optim_steps' = StepOptim("g")
    /\ UNCHANGED <<config, hist_vars, raised, epoch, i, k, outer, mode, grad_enabled,
                   dnet_calls, dnet_version, d_loss, g_loss, optim_at_eval,
                   history, history_val, history_at_eval, save_calls,
                   sched_steps, scalar_calls>>

OneGANReadyEstimator_train_d ==
    /\ pc = "ready_d"
    /\ pc' = "ready_g"
    /\ events' = events \o <<Zero("d"), Backward("d"), Step("d")>>
    /\ dnet_version' = dnet_version + 1
    /\ optim_steps' = StepOptim("d")
    /\ UNCHANGED <<config, hist_vars, raised, epoch, i, k, outer, mode, grad_enabled,
                   dnet_calls, d_loss, g_loss, optim_at_eval, history,
                   history_val, history_at_eval, save_calls, sched_steps,
                   scalar_calls>>

OneGANReadyEstimator_train_g ==
    /\ pc = "ready_g"
    /\ pc' = "ready_fold"
    /\ events' = events \o <<Zero("g"), Backward("g"), Step("g")>>
    /\ optim_steps' = StepOptim("g")
    /\ UNCHANGED <<config, hist_vars, raised, epoch, i, k, outer, mode, grad_enabled,
                   dnet_calls, dnet_version, d_loss, g_loss, optim_at_eval,
                   history, history_val, history_at_eval, save_calls,
                   sched_steps, scalar_calls>>

\* history.add(...); self.logger.image(..., prefix='train_')
OneGANReadyEstimator_train_fold ==
    /\ pc = "ready_fold"
    /\ events' = events \o <<<<"history.add", "train">>>>
    /\ history' = History_add(history, ReadyStatus(Batch), "")
    /\ i' = i + 1
    /\ pc' = IF i + 1 = n_train THEN "ready_train_end" ELSE "ready_forward"
    /\ UNCHANGED <<config, hist_vars, raised, epoch, k, outer, mode, grad_enabled,
                   dnet_calls, dnet_version, d_loss, g_loss, optim_steps,
                   optim_at_eval, history_val, history_at_eval, save_calls,
                   sched_steps, scalar_calls>>

\* self.logger.scalar(history.metric(), epoch); gnet.eval(); dnet.eval();
\* evaluate(.., History()) enters torch.no_grad()
OneGANReadyEstimator_train_end ==
    /\ pc = "ready_train_end"
    /\ pc' = "ready_evaluate"
    /\ scalar_calls' = Append(scalar_calls,
                              [epoch |-> epoch,
                               keys |-> DOMAIN History_metric(history),
                               metric |-> History_metric(history)])
    /\ mode' = "eval"
    /\ grad_enabled' = FALSE
    /\ history_val' = EmptyHistory
    /\ optim_at_eval' = optim_steps
    /\ history_at_eval' = history
    /\ i' = 0
    /\ events' = <<>>
    /\ dnet_calls' = <<>>
    /\ UNCHANGED <<config, hist_vars, raised, epoch, k, outer, dnet_version, d_loss,
                   g_loss, optim_steps, history, save_calls, sched_steps>>

\* one batch of OneGANReadyEstimator.evaluate
OneGANReadyEstimator_evaluate ==
    /\ pc = "ready_evaluate"
    /\ LET output == gnet(Batch)
       IN  dnet_calls' =
              OneGANReadyEstimator_foward_d(Batch, detach(output), target)
              \o OneGANReadyEstimator_foward_g(Batch, output, target)
    /\ events' = <<Loss("d"), Loss("g"), <<"history.add", "eval">>>>
    /\ history_val' = History_add(history_val, ReadyStatus(Batch), "_val")
    /\ i' = i + 1
    /\ IF i + 1 = n_val
       THEN pc' = "ready_evaluate_end" /\ grad_enabled' = TRUE
       ELSE pc' = "ready_evaluate" /\ UNCHANGED grad_enabled
    /\ UNCHANGED <<config, hist_vars, raised, epoch, k, outer, mode, dnet_version,
                   d_loss, g_loss, optim_steps, optim_at_eval, history,
                   history_at_eval, save_calls, sched_steps, scalar_calls>>

\* Estimator.save_checkpoint: self.saver.save(self.model, self.optim, epoch)
Estimator_save_checkpoint(e) ==
    IF "model_optim" \in provided THEN <<e>> ELSE <<>>

\* self.logger.scalar(history.metric(), epoch); self.save_checkpoint(epoch)
OneGANReadyEstimator_evaluate_end ==
    /\ pc = "ready_evaluate_end"
    /\ scalar_calls' = Append(scalar_calls,
                              [epoch |-> epoch,
                               keys |-> DOMAIN History_metric(history_val),
                               metric |-> History_metric(history_val)])
    /\ save_calls' = save_calls \o Estimator_save_checkpoint(epoch)
    /\ IF "model_optim" \in provided
       THEN pc' = "run_loop" /\ epoch' = epoch + 1 /\ UNCHANGED raised
       ELSE pc' = "raised" /\ raised' = "AttributeError" /\ UNCHANGED epoch
    /\ UNCHANGED <<config, hist_vars, i, k, outer, mode, grad_enabled, events,
                   dnet_calls, dnet_version, d_loss, g_loss, optim_steps,
                   optim_at_eval, history, history_val, history_at_eval,
                   sched_steps>>

\* ------------------------------------------------------------ OneWGANReadyEstimator
\* The training pass runs on an instance that carries the attributes it
\* reads (a subclass assigns them); the loader has n_train batches.
WGANStatus(data) == ReadyStatus(data) @@ ("d/gp" :> data)

\* one critic iteration too many
critic_loop_done_late(done) == done = critic_iters + 1

\* for _ in range(self.critic_iters): the inner loop ends after done passes
critic_loop_done(done) == done = critic_iters

\* The inherited OneGANEstimator.run, first epoch: self.train(train_loader,
\* update_fn) binds update_fn to epoch and leaves history without an argument.
OneWGANReadyEstimator_run ==
    /\ pc = "init" /\ cls = "OneWGANReadyEstimator"
    /\ "wgan_attrs" \in provided
    /\ entry = "run"
    /\ epoch < epochs
    /\ UNCHANGED <<config, hist_vars>>
    /\ Raise("TypeError")

\* progress = tqdm.tqdm(data_loader); for _ in range(len(progress)):
OneWGANReadyEstimator_train_begin ==
    /\ pc = "init" /\ cls = "OneWGANReadyEstimator"
    /\ "wgan_attrs" \in provided
    /\ entry = "train"
    /\ pc' = IF n_train > 0 THEN "wgan_critic" ELSE "wgan_end"
    /\ mode' = "train"
    /\ UNCHANGED <<config, hist_vars, raised, epoch, i, k, outer, grad_enabled, events,
                   dnet_calls, dnet_version, d_loss, g_loss, optim_steps,
                   optim_at_eval, history, history_val, history_at_eval,
                   save_calls, sched_steps, scalar_calls>>

\* one critic iteration: fetch_data(); output = self.gnet(source).detach();
\* foward_d; the discriminator update
OneWGANReadyEstimator_train_critic ==
    /\ pc = "wgan_critic"
    /\ UNCHANGED <<config, hist_vars>>
    /\ IF i = n_train
       THEN Raise("StopIteration")
       ELSE LET output == detach(gnet(Batch))
                before == IF k = 0 THEN <<>> ELSE events
                called == IF k = 0 THEN <<>> ELSE dnet_calls
            IN  /\ i' = i + 1
                /\ dnet_calls' =
                      called \o OneGANReadyEstimator_foward_d(Batch, output, target)
                /\ d_loss' = [dnet |-> dnet_version]
                /\ g_loss' = IF k = 0 THEN NoLoss ELSE g_loss
                /\ events' = before \o <<<<"fetch", "loader">>, Loss("d"),
                                         Zero("d"), Backward("d"), Step("d")>>
                /\ dnet_version' = dnet_version + 1
                /\ optim_steps' = StepOptim("d")
                /\ k' = k + 1
                /\ pc' = IF critic_loop_done(k + 1)
                         THEN "wgan_generator" ELSE "wgan_critic"
                /\ UNCHANGED <<raised, epoch, outer, mode, grad_enabled,
                               optim_at_eval, history, history_val,
                               history_at_eval, save_calls, sched_steps,
                               scalar_calls>>

\* fetch_data(); output = self.gnet(source); foward_g; the generator update;
\* metric, history.add, logger.image
OneWGANReadyEstimator_train_generator ==
    /\ pc = "wgan_generator"
    /\ UNCHANGED <<config, hist_vars>>
    /\ IF i = n_train
       THEN Raise("StopIteration")
       ELSE LET output == gnet(Batch)
            IN  /\ i' = i + 1
                /\ dnet_calls' =
                      dnet_calls \o OneGANReadyEstimator_foward_g(Batch, output, target)
                /\ g_loss' = [dnet |-> dnet_version]
                /\ events' = events \o <<<<"fetch", "loader">>, Loss("g"),
                                         Zero("g"), Backward("g"), Step("g"),
                                         <<"history.add", "train">>>>
                /\ optim_steps' = StepOptim("g")
                /\ history' = History_add(history, WGANStatus(Batch), "")
                /\ outer' = outer + 1
                /\ k' = 0
                /\ pc' = IF outer + 1 = n_train THEN "wgan_end" ELSE "wgan_critic"
                /\ UNCHANGED <<raised, epoch, mode, grad_enabled, dnet_version,
                               d_loss, optim_at_eval, history_val,
                               history_at_eval, save_calls, sched_steps,
                               scalar_calls>>

\* self.logger.scalar(history.metric(), epoch)
OneWGANReadyEstimator_train_end ==
    /\ pc = "wgan_end"
    /\ pc' = "done"
    /\ scalar_calls' = Append(scalar_calls,
                              [epoch |-> epoch,
                               keys |-> DOMAIN History_metric(history),
                               metric |-> History_metric(history)])
    /\ UNCHANGED <<config, hist_vars, raised, epoch, i, k, outer, mode, grad_enabled,
                   events, dnet_calls, dnet_version, d_loss, g_loss,
                   optim_steps, optim_at_eval, history, history_val,
                   history_at_eval, save_calls, sched_steps>>

\* ------------------------------------------------------------ specification
Next ==
    \/ OneEstimator_init
    \/ OneGANEstimator_init
    \/ OneGANReadyEstimator_init
    \/ OneWGANReadyEstimator_init
    \/ OneEstimator_run
    \/ OneEstimator_train_begin
    \/ OneEstimator_train
    \/ OneEstimator_evaluate_begin
    \/ OneEstimator_evaluate
    \/ OneEstimator_epoch_end
    \/ OneEstimator_closure_raises
    \/ OneGANEstimator_run
    \/ OneGANEstimator_train_begin
    \/ OneGANEstimator_train_d
    \/ OneGANEstimator_train_g
    \/ OneGANEstimator_train_fold
    \/ OneGANEstimator_log_train
    \/ OneGANEstimator_evaluate_begin
    \/ OneGANEstimator_evaluate
    \/ OneGANEstimator_log_eval
    \/ OneGANEstimator_epoch_end
    \/ OneGANEstimator_closure_raises
    \/ OneGANEstimator_dummy_run
    \/ OneGANEstimator_dummy_train_begin
    \/ OneGANEstimator_dummy_train
    \/ OneGANEstimator_dummy_evaluate_begin
    \/ OneGANEstimator_dummy_evaluate
    \/ OneGANReadyEstimator_run
    \/ OneGANReadyEstimator_train_forward
    \/ OneGANReadyEstimator_train_d
    \/ OneGANReadyEstimator_train_g
    \/ OneGANReadyEstimator_train_fold
    \/ OneGANReadyEstimator_train_end
    \/ OneGANReadyEstimator_evaluate
    \/ OneGANReadyEstimator_evaluate_end
    \/ OneWGANReadyEstimator_run
    \/ OneWGANReadyEstimator_train_begin
    \/ OneWGANReadyEstimator_train_critic
    \/ OneWGANReadyEstimator_train_generator
    \/ OneWGANReadyEstimator_train_end

Spec == Init /\ [][Next]_vars

\* ------------------------------------------------------------ properties
IsPrefix(s, t) == Len(s) <= Len(t) /\ s = SubSeq(t, 1, Len(s))

Count(seq, e) == Cardinality({j \in 1..Len(seq) : seq[j] = e})

IsOptimizerEvent(e) == e[1] \in {"zero_grad", "backward", "step"}

OptimizerEvents(ev) == SelectSeq(ev, IsOptimizerEvent)

Protocol == <<Zero("d"), Backward("d"), Step("d"),
              Zero("g"), Backward("g"), Step("g")>>

\* the current training batch has been folded into the history
BatchFolded ==
    /\ mode = "train"
    /\ Len(events) > 0
    /\ events[Len(events)] = <<"history.add", "train">>

\* run() of one of the two GAN estimators
GANRun ==
    /\ cls \in {"OneGANEstimator", "OneGANReadyEstimator"}
    /\ entry = "run"

\* C1: in every training batch of OneGANEstimator.train and
\* OneGANReadyEstimator.train the optimizer events are, in order, zero D,
\* backward D, step D, zero G, backward G, step G: at every point of the batch
\* the events so far are a prefix of that sequence, and a finished batch holds
\* all of it (each optimizer stepped once, G never before D).
C1_StepOrder ==
    (GANRun /\ mode = "train") =>
        /\ IsPrefix(OptimizerEvents(events), Protocol)
        /\ BatchFolded => OptimizerEvents(events) = Protocol

C1_Witness ==
    /\ cls = "OneGANReadyEstimator"
    /\ BatchFolded
    /\ i = 2
    /\ epoch = 1

\* C2: in every GAN training batch the generator loss is computed only after
\* the discriminator's optimizer step of that batch: every computation of the
\* generator loss in the batch's events is preceded by the step of D, and the
\* loss was computed against the updated discriminator.
C2_GLossAfterDStep ==
    (GANRun /\ mode = "train") =>
        /\ \A j \in 1..Len(events) :
              events[j] = Loss("g") =>
                  \E j2 \in 1..(j - 1) : events[j2] = Step("d")
        /\ (g_loss # NoLoss /\ Count(events, Step("g")) > 0) =>
              g_loss.dnet = dnet_version

\* C3: in a training pass (plain GAN and Wasserstein) every input the
\* discriminator receives while the discriminator loss is computed carries no
\* gradient history; an input with gradient history reaches the discriminator
\* only through the generator forward function.
C3_DetachedInDStep ==
    (cls \in {"OneGANReadyEstimator", "OneWGANReadyEstimator"} /\ mode = "train") =>
        \A j \in 1..Len(dnet_calls) :
            /\ dnet_calls[j].stage = "d" => ~dnet_calls[j].grad
            /\ dnet_calls[j].grad => dnet_calls[j].stage = "g"

C3_Witness ==
    /\ cls = "OneWGANReadyEstimator"
    /\ outer = 1
    /\ k = 0
    /\ \E j \in 1..Len(dnet_calls) :
          dnet_calls[j].stage = "d" /\ dnet_calls[j].input = "fake"
    /\ \E j \in 1..Len(dnet_calls) :
          dnet_calls[j].stage = "g" /\ dnet_calls[j].grad

\* an outer iteration of the Wasserstein pass has just completed
WGANIterationDone ==
    /\ cls = "OneWGANReadyEstimator"
    /\ outer > 0
    /\ k = 0

\* the events of a full outer iteration: k critic updates, one generator update
CriticEvents == <<<<"fetch", "loader">>, Loss("d"), Zero("d"), Backward("d"),
                  Step("d")>>

RECURSIVE Repeat(_, _)
Repeat(seq, n) == IF n = 0 THEN <<>> ELSE seq \o Repeat(seq, n - 1)

\* C4: in the Wasserstein training pass with critic_iters = k, every full
\* outer iteration fetches exactly k+1 batches and performs exactly k
\* discriminator optimizer steps followed by exactly one generator step.
C4_WassersteinRatio ==
    WGANIterationDone =>
        /\ Count(events, <<"fetch", "loader">>) = critic_iters + 1
        /\ Count(events, Step("d")) = critic_iters
        /\ Count(events, Step("g")) = 1
        /\ IsPrefix(Repeat(CriticEvents, critic_iters), events)
        /\ i = outer * (critic_iters + 1)
        /\ optim_steps.d = outer * critic_iters
        /\ optim_steps.g = outer

C4_Witness ==
    /\ WGANIterationDone
    /\ critic_iters = DefaultCriticIters

\* C5: during an evaluation pass (OneEstimator.evaluate,
\* OneGANEstimator.evaluate, OneGANReadyEstimator.evaluate,
\* OneGANEstimator.dummy_evaluate) no optimizer zero_grad, backward or step
\* is invoked: every optimizer's step count is what it was when the pass began.
C5_EvalNoOptimizer ==
    mode = "eval" =>
        /\ optim_steps = optim_at_eval
        /\ OptimizerEvents(events) = <<>>

C5_Witness ==
    /\ cls = "OneGANEstimator"
    /\ entry = "run"
    /\ pc = "gan_log_eval"
    /\ i = 2
    /\ optim_steps.d > 0

\* a training batch of OneGANReadyEstimator.train has completed
ReadyBatchDone == cls = "OneGANReadyEstimator" /\ BatchFolded

\* C6 (as stated): one training batch of OneGANReadyEstimator.train invokes
\* the discriminator network exactly twice.
C6_TwoDnetCalls == ReadyBatchDone => Len(dnet_calls) = 2

\* C6 (amended): one training batch of OneGANReadyEstimator.train invokes the
\* discriminator network exactly three times: on the fake input and on the
\* real input for the discriminator loss, then once for the generator loss.
C6_ThreeDnetCalls ==
    ReadyBatchDone =>
        /\ Len(dnet_calls) = 3
        /\ dnet_calls[1].stage = "d" /\ dnet_calls[1].input = "fake"
        /\ dnet_calls[2].stage = "d" /\ dnet_calls[2].input = "real"
        /\ dnet_calls[3].stage = "g" /\ dnet_calls[3].input = "fake"

C6_Witness == ReadyBatchDone /\ i = 1 /\ optim_steps.g = 1

\* the call of run() has ended: returned or left by an exception
RunEnded == pc \in {"done", "raised"}

\* C7: with save_epochs = 5, a run of 12 epochs invokes checkpoint save
\* exactly twice, for the epochs 5 and 10 (OneGANReadyEstimator.run on an
\* instance whose forward functions can run).
C7_SaveCadence ==
    (cls = "OneGANReadyEstimator" /\ "conditional" \in provided
     /\ epochs = 12 /\ RunEnded) =>
        save_calls = <<save_epochs, 2 * save_epochs>>

\* C8: with an optional collaborator (saver, logger, learning-rate scheduler)
\* left at None, constructing OneEstimator or OneGANEstimator and calling
\* run() raises nothing.
C8_NoneIsNoOp ==
    (cls \in {"OneEstimator", "OneGANEstimator"} /\ entry = "run"
     /\ (~logger \/ ~saver \/ lr_scheduler = "None")) =>
        raised \in {"none", "ClosureError"}

StepsOf(s) == SelectSeq(sched_steps, LAMBDA e : e[1] = s)

MonitoredName(s) == IF s = "g" THEN "loss/loss_g" ELSE "loss/loss_d"

\* C9: at the end of every epoch of OneGANEstimator.run with two schedulers
\* configured, each scheduler has been stepped for that epoch: with its
\* monitored value when the key is present, unconditionally when it is absent.
C9_SchedulersAdvance ==
    (cls = "OneGANEstimator" /\ entry = "run" /\ lr_scheduler = "pair"
     /\ pc = "run_loop") =>
        \A s \in {"g", "d"} :
            StepsOf(s) =
                [j \in 1..epoch |->
                    <<s, IF MonitoredName(s) \in inference_keys
                         THEN "value" ELSE "noarg">>]

\* OneGANEstimator.evaluate has returned
GANEvaluateReturned ==
    cls = "OneGANEstimator" /\ entry = "run" /\ pc = "gan_log_eval"

ValKeys(h) == \A key \in DOMAIN h : key[2] = "_val"

\* C10 (as stated): the evaluation pass folds the batches into history_val
\* under `_val` keys and leaves the training history unchanged: the training
\* means are still readable after OneGANEstimator.evaluate returns.
C10_EvalKeepsTrainHistory ==
    GANEvaluateReturned =>
        /\ history = history_at_eval
        /\ DOMAIN history_val # {}
        /\ ValKeys(history_val)

\* C10 (amended): OneGANEstimator.evaluate clears self.history and folds the
\* batches into that same history under `_val` keys, leaving history_val
\* untouched: after it returns the history holds the evaluation sums of the
\* pass and no training key.  OneGANEstimator.dummy_evaluate is the pass that
\* folds into history_val and leaves the training history unchanged.
C10_EvalReplacesHistory ==
    /\ GANEvaluateReturned =>
          /\ ValKeys(history)
          /\ \A key \in DOMAIN history : history[key][2] = n_val
          /\ <<"acc/psnr", "_val">> \in DOMAIN history
          /\ history_val = EmptyHistory
    /\ (cls = "OneGANEstimator" /\ entry = "dummy_run" /\ mode = "eval") =>
          /\ history = history_at_eval
          /\ ValKeys(history_val)

C10_Witness ==
    /\ GANEvaluateReturned
    /\ n_val = 2
    /\ <<"loss/loss_d", "">> \in DOMAIN history_at_eval
    /\ <<"loss/loss_d", "_val">> \in DOMAIN history

\* ---- sums over the batches of a pass, computed from the closures' reports
RECURSIVE SumOver(_, _, _)
\* the sum of name over the batches of S in the reports st (batch -> status)
SumOver(st, name, S) ==
    IF S = {} THEN 0
    ELSE LET j == CHOOSE x \in S : TRUE
         IN  st[j][name] + SumOver(st, name, S \ {j})

\* the running history that n batches with reports st leave under suffix sfx:
\* each name maps to (sum, count) over the batches that supplied it
PassHistory(st, n, sfx) ==
    LET names == UNION {DOMAIN st[j] : j \in 1..n}
        supplied(name) == {j \in 1..n : name \in DOMAIN st[j]}
    IN  [key \in {<<name, sfx>> : name \in names} |->
            <<SumOver(st, key[1], supplied(key[1])),
              Cardinality(supplied(key[1]))>>]

GANTrainReports == [j \in 1..n_train |-> UpdateStatus(j)]
GANEvalReports == [j \in 1..n_val |-> InferenceStatus(j)]

\* C11: in every epoch e of OneGANEstimator.run the logger receives exactly
\* two scalar emissions tagged e: first the means of the epoch's training
\* batches (unsuffixed keys only), then the means of the epoch's evaluation
\* batches (`_val` keys only); neither holds an observation of the other pass
\* or of an earlier epoch.
C11_TwoEmissionsPerEpoch ==
    (cls = "OneGANEstimator" /\ entry = "run") =>
        /\ Len(scalar_calls) \in {2 * epoch, 2 * epoch + 1, 2 * epoch + 2}
        /\ pc \in {"run_loop", "done"} => Len(scalar_calls) = 2 * epoch
        /\ \A j \in 1..Len(scalar_calls) :
              IF j % 2 = 1
              THEN /\ scalar_calls[j].epoch = (j - 1) \div 2
                   /\ scalar_calls[j].metric =
                          PassHistory(GANTrainReports, n_train, "")
              ELSE /\ scalar_calls[j].epoch = (j - 2) \div 2
                   /\ scalar_calls[j].metric =
                          PassHistory(GANEvalReports, n_val, "_val")

C11_Witness ==
    /\ cls = "OneGANEstimator" /\ entry = "run"
    /\ pc = "run_loop"
    /\ epoch = 2
    /\ n_train = 2
    /\ Len(scalar_calls) = 4

\* ------------------------------------------------------------ C12
TrainBatchProtocol == <<<<"closure", "m">>, Zero("m"), Backward("m"),
                        Step("m"), <<"history.add", "m">>>>

TrainBatchesDone == IF pc = "train" THEN i ELSE n_train

\* C12: in a training pass of OneEstimator.train every batch invokes the
\* closure once and then, in this order, zero_grad, backward, step and
\* history.add; the optimizer steps and the history.add calls of the pass
\* both number the batches consumed.
C12_TrainBatchProtocol ==
    (cls = "OneEstimator" /\ pc \in {"train", "evaluate_begin"}) =>
        /\ TrainBatchesDone > 0 => events = TrainBatchProtocol
        /\ optim_steps.m = epoch * n_train + TrainBatchesDone
        /\ TrainBatchesDone > 0 =>
              history[<<"loss/loss", "">>][2] = TrainBatchesDone
        /\ TrainBatchesDone = 0 => ~History_has(history, "loss/loss", "")

C12_Witness ==
    /\ cls = "OneEstimator"
    /\ pc = "evaluate_begin"
    /\ n_train = 2
    /\ epoch = 1
    /\ optim_steps.m = 4

\* ------------------------------------------------------------ C13
FinalizationKinds ==
    {"epoch_fn", "logger.scalar", "logger.histogram", "saver.save",
     "lr_scheduler.step"}

FinalizationRank(e) ==
    CASE e[1] = "epoch_fn" -> 1
      [] e[1] \in {"logger.scalar", "logger.histogram"} -> 2
      [] e[1] = "saver.save" -> 3
      [] e[1] = "lr_scheduler.step" -> 4
      [] OTHER -> 0

CountKind(ev, kind) == Len(SelectSeq(ev, LAMBDA e : e[1] = kind))

\* C13: after the evaluation pass of an epoch OneEstimator.run performs, once
\* each and in this order, the epoch callbacks (a list in list order), the
\* scalar logging, the checkpoint and the scheduler; none of them happens
\* while the epoch's passes are running.
C13_FinalizationOrder ==
    cls = "OneEstimator" =>
        /\ (pc \in {"run_loop", "done"} /\ epoch > 0) =>
              /\ \A j \in 1..Len(events) : events[j][1] \in FinalizationKinds
              /\ \A j, l \in 1..Len(events) :
                    j < l => FinalizationRank(events[j])
                                 <= FinalizationRank(events[l])
              /\ SelectSeq(events, LAMBDA e : e[1] = "epoch_fn")
                    = (CASE epoch_fn = "list" ->
                                <<<<"epoch_fn", "1">>, <<"epoch_fn", "2">>>>
                         [] epoch_fn = "callable" -> <<<<"epoch_fn", "1">>>>
                         [] OTHER -> <<>>)
              /\ Len(callback_calls) = epoch * CountKind(events, "epoch_fn")
              /\ \A j \in 1..Len(callback_calls) :
                    /\ callback_calls[j].epoch
                          = (j - 1) \div CountKind(events, "epoch_fn")
                    /\ callback_calls[j].epoch = epoch - 1 =>
                          callback_calls[j].history = history
              /\ CountKind(events, "logger.scalar") = (IF logger THEN 1 ELSE 0)
              /\ CountKind(events, "saver.save") = (IF saver THEN 1 ELSE 0)
              /\ CountKind(events, "lr_scheduler.step")
                    = (IF lr_scheduler = "None" THEN 0 ELSE 1)
        /\ pc \in {"train", "evaluate_begin", "evaluate", "epoch_end"} =>
              \A j \in 1..Len(events) : events[j][1] \notin FinalizationKinds
        /\ pc \in {"train_begin", "train", "evaluate_begin", "evaluate",
                   "epoch_end"} =>
              /\ Len(scalar_calls) = (IF logger THEN epoch ELSE 0)
              /\ Len(save_calls) = (IF saver THEN epoch ELSE 0)
              /\ Len(sched_steps) = (IF lr_scheduler = "None" THEN 0 ELSE epoch)
              /\ \A j \in 1..Len(callback_calls) :
                    callback_calls[j].epoch < epoch

C13_Witness ==
    /\ cls = "OneEstimator"
    /\ pc = "run_loop"
    /\ epoch = 2
    /\ epoch_fn = "list" /\ logger /\ saver /\ lr_scheduler = "other"
    /\ histogram_arg = "prefixed"
    /\ Len(events) = 6

\* ------------------------------------------------------------ C16
\* the tensors the closure handed over under a prefix in the batches so far
\* of the current epoch, per prefixed tag, in arrival order
RECURSIVE HandedOver(_, _)
HandedOver(nt, nv) ==
    IF nt + nv = 0
    THEN EmptyBuffer
    ELSE LET prev == IF nv > 0 THEN HandedOver(nt, nv - 1)
                     ELSE HandedOver(nt - 1, 0)
             prefix == IF nv > 0 THEN "val_" ELSE "train_"
             m == IF nv > 0 THEN "eval" ELSE "train"
             data == IF nv > 0 THEN nv ELSE nt
         IN  [t \in (DOMAIN prev) \cup {<<prefix, "w">>, <<prefix, "b">>} |->
                 (IF t \in DOMAIN prev THEN prev[t] ELSE <<>>)
                 \o (IF t[1] = prefix
                     THEN <<<<epoch, m, data, t[2]>>>>
                     ELSE <<>>)]

BatchesSoFar ==
    CASE pc = "train" -> <<i, 0>>
      [] pc = "evaluate_begin" -> <<n_train, 0>>
      [] pc = "evaluate" -> <<n_train, i>>
      [] pc = "epoch_end" -> <<n_train, n_val>>
      [] OTHER -> <<0, 0>>

Buffering == logger /\ histogram_arg = "prefixed"

RECURSIVE BufferedCount(_, _)
BufferedCount(buf, tags) ==
    IF tags = {}
    THEN 0
    ELSE LET t == CHOOSE x \in tags : TRUE
         IN  Len(buf[t]) + BufferedCount(buf, tags \ {t})

OneTrainReports == [j \in 1..n_train |-> ClosureStatus(j)]

OneEvalReports == [j \in 1..n_val |-> ClosureStatus(j)]

EpochMeans ==
    LET tr == PassHistory(OneTrainReports, n_train, "")
        ev == PassHistory(OneEvalReports, n_val, "_val")
    IN  [key \in (DOMAIN tr) \cup (DOMAIN ev) |->
            IF key \in DOMAIN tr THEN tr[key] ELSE ev[key]]

\* C17: when OneEstimator.run invokes the epoch callbacks and logs the
\* scalars of epoch e, history.metric() maps every name to its mean over the
\* training batches of e (those that reported it) and every name with the
\* suffix _val to its mean over the evaluation batches of e, and nothing of
\* an earlier epoch contributes.
C17_EpochMeans ==
    cls = "OneEstimator" =>
        /\ pc = "epoch_end" => History_metric(history) = EpochMeans
        /\ \A j \in 1..Len(scalar_calls) :
              /\ scalar_calls[j].epoch = j - 1
              /\ scalar_calls[j].metric = EpochMeans
        /\ \A j \in 1..Len(callback_calls) :
              History_metric(callback_calls[j].history) = EpochMeans

C17_Witness ==
    /\ cls = "OneEstimator"
    /\ pc = "run_loop"
    /\ epoch = 2
    /\ n_train = 2 /\ n_val = 2
    /\ logger /\ epoch_fn = "callable"
    /\ Len(scalar_calls) = 2
    /\ scalar_calls[2].metric[<<"acc/top1", "">>] = <<2, 1>>
    /\ scalar_calls[2].metric[<<"loss/loss", "_val">>] = <<3, 2>>

\* ------------------------------------------------------------ C18
ExpectedStep ==
    IF lr_scheduler = "plateau"
    THEN <<"s", "value", EpochMeans[<<"loss/loss", "_val">>]>>
    ELSE <<"s", "noarg">>

\* C18: a scheduler configured on OneEstimator is stepped exactly once per
\* epoch, after the checkpoint call: with the epoch's 'loss/loss_val' when it
\* is of the plateau type, without an argument otherwise.
C18_SchedulerStep ==
    (cls = "OneEstimator" /\ lr_scheduler # "None") =>
        /\ Len(sched_steps) = epoch
        /\ \A j \in 1..Len(sched_steps) : sched_steps[j] = ExpectedStep
        /\ (pc \in {"run_loop", "done"} /\ epoch > 0) =>
              /\ CountKind(events, "lr_scheduler.step") = 1
              /\ events[Len(events)] = <<"lr_scheduler.step", ExpectedStep[2]>>
              /\ saver => events[Len(events) - 1] = <<"saver.save", "m">>

C18_Witness ==
    /\ cls = "OneEstimator"
    /\ lr_scheduler = "plateau"
    /\ saver
    /\ pc = "run_loop"
    /\ epoch = 2
    /\ n_val = 2
    /\ sched_steps = <<<<"s", "value", <<3, 2>>>>, <<"s", "value", <<3, 2>>>>>>

\* ------------------------------------------------------------ C15
\* the step() calls one completed epoch makes on the schedulers
StepsPerEpoch ==
    IF cls = "OneEstimator"
    THEN (IF lr_scheduler = "None" THEN 0 ELSE 1)
    ELSE Len(OneGANEstimator_adjust_learning_rate(
                 PassHistory(GANEvalReports, n_val, "_val")))

\* C15: an exception raised in the training or evaluation pass of epoch e
\* aborts run(): the checkpoint and the scheduler have acted for the epochs
\* before e only, and nothing further is executed, so no later epoch starts.
C15_ExceptionAborts ==
    (cls \in {"OneEstimator", "OneGANEstimator"} /\ raised = "ClosureError") =>
        /\ pc = "raised"
        /\ ~ENABLED Next
        /\ Len(save_calls) = (IF saver THEN epoch ELSE 0)
        /\ \A j \in 1..Len(save_calls) :
              save_calls[j] # (IF cls = "OneEstimator" THEN epoch + 1 ELSE epoch)
        /\ Len(sched_steps) = epoch * StepsPerEpoch

C15_Witness ==
    /\ cls = "OneEstimator"
    /\ raised = "ClosureError"
    /\ saver /\ lr_scheduler # "None"
    /\ mode = "eval"
    /\ epoch = 1 /\ epochs = 3
    /\ save_calls = <<1>>

\* ------------------------------------------------------------ C14
\* C14: run() with epochs = n and finite loaders terminates after exactly n
\* epochs, each a training pass, an evaluation pass and the checkpoint call,
\* with the epoch indices increasing from 0 to n-1 (stated here for
\* OneGANReadyEstimator.run on an instance as its constructor leaves it).
C14_RunCompletes ==
    (cls = "OneGANReadyEstimator" /\ provided = {} /\ RunEnded) =>
        /\ pc = "done"
        /\ raised = "none"
        /\ epoch = epochs
        /\ save_calls = [j \in 1..epochs |-> j - 1]

\* ------------------------------------------------------------ C19
\* C19: constructing OneWGANReadyEstimator and calling its inherited run()
\* executes for every epoch the overridden training pass, an evaluation pass
\* and the checkpoint call, and returns.
C19_WGANRunsEpochs ==
    (cls = "OneWGANReadyEstimator" /\ entry = "run" /\ RunEnded) =>
        /\ pc = "done"
        /\ raised = "none"
        /\ epoch = epochs

\* ------------------------------------------------------------ C20
\* C20: with a loader of N >= 1 batches and critic_iters >= 1 the training
\* pass of OneWGANReadyEstimator never asks the loader for a batch beyond
\* its end, and completes.
C20_NoFetchBeyondLoader ==
    (cls = "OneWGANReadyEstimator" /\ entry = "train"
     /\ n_train >= 1 /\ critic_iters >= 1) =>
        /\ raised # "StopIteration"
        /\ (RunEnded /\ mode = "train") => pc = "done"

\* ------------------------------------------------------------ C21
\* C21: a call of OneGANEstimator.adjust_learning_rate that passes the guard
\* steps each scheduler at most once, also when the monitored value of the
\* second scheduler is missing after the first one was stepped and the
\* handler steps the schedulers without argument. One call is made per
\* completed epoch, so no scheduler has more steps than epochs completed.
C21_AtMostOneStepPerCall ==
    (cls = "OneGANEstimator" /\ entry = "run" /\ "lr_scheduler" \in provided) =>
        \A s \in {"g", "d"} : Len(StepsOf(s)) <= epoch

=============================================================================
